---------------------------- MODULE Spec2Model ----------------------------
(***************************************************************************)
(* Model of src/bot.py: the composite outfit-panel renderer                *)
(* (build_outfit_panel, fetch_image, paste_center) and the cross-region    *)
(* !search command (search_cmd).                                           *)
(***************************************************************************)
EXTENDS Integers, Sequences, FiniteSets, TLC

VARIABLES
    data,        \* the profile record handed to build_outfit_panel
    pc,          \* position inside build_outfit_panel
    items,       \* the ItemList (local `items`)
    idx,         \* 0-based loop index `i` of the ring loop
    avatar,      \* local `avatar`: an image or None
    net,         \* the HTTP GET of fetch_image that is awaiting its answer
    requests,    \* every GET issued by this render, in order (item ids)
    answered,    \* how many of those GETs have ended (an answer or an exception)
    last,        \* the last completed fetch_image call: its id, answer, result
    avatarCalls, \* the fetch_image calls of the avatar step and their results
    fetched,     \* per processed ring item: what fetch_image returned
    canvas,      \* the draw operations applied to the canvas, in order
    err,         \* the exception that left build_outfit_panel, if any
    output,      \* the encoded image returned to the caller
    spc,         \* position inside search_cmd
    region,      \* 1-based index of the region search_cmd is at
    queried,     \* the regions whose profile was requested, in order
    statuses,    \* the answers to those requests, in order
    sent,        \* the chat messages sent by search_cmd, in order
    pimg,        \* paste_center: the source image size <<w, h>>
    pmax,        \* paste_center: max_size
    pat,         \* paste_center: the target point
    pasted       \* paste_center: the resized size and paste corner

renderVars == <<data, pc, items, idx, avatar, net, requests, answered, last,
                avatarCalls, fetched, canvas, err, output>>
searchVars == <<spc, region, queried, statuses, sent>>
pasteVars == <<pimg, pmax, pat, pasted>>

vars == <<renderVars, searchVars, pasteVars>>

---------------------------------------------------------------------------
(* Bounds of the model *)
MaxClothes == 2
MaxWeapons == 1

(* Program constants *)
CanvasW == 1400
CanvasH == 1000
RingRadius == 420
HexSize == 110
AvatarMax == 300
ItemMax == 120

---------------------------------------------------------------------------
(* JSON-like values: null, strings, lists of strings, dicts *)
Null == [tag |-> "null"]
Str(s) == [tag |-> "str", s |-> s]
List(v) == [tag |-> "list", v |-> v]
Dict(d) == [tag |-> "dict", d |-> d]
EmptyDict == Dict(<<>>)
EmptyList == List(<<>>)

\* Python truthiness of a JSON value
Truthy(x) ==
    CASE x.tag = "null" -> FALSE
      [] x.tag = "str"  -> x.s # ""
      [] x.tag = "list" -> Len(x.v) > 0
      [] x.tag = "dict" -> DOMAIN x.d # {}
      [] OTHER -> TRUE

\* Python `x or y`
Or(x, y) == IF Truthy(x) THEN x ELSE y

\* dict.get(key, default) applies to dicts only; on None it raises AttributeError
CanGet(m) == m.tag = "dict"
Get(m, key, default) == IF key \in DOMAIN m.d THEN m.d[key] ELSE default

\* a dict from a set of <<key, value>> pairs with distinct keys
MkDict(pairs) ==
    Dict([k \in {p[1] : p \in pairs} |-> (CHOOSE p \in pairs : p[1] = k)[2]])

\* a key that is absent, or present with one of the values
Opt(key, vals) == {{}} \cup {{<<key, v>>} : v \in vals}

SeqsUpTo(S, n) == UNION {[1..k -> S] : k \in 0..n}

ClothIds == {"a", "b"}
WeaponIds == {"w", ""}
IdVals == {Null, Str("")}

ProfileInfos ==
    {MkDict(c \cup a) :
        c \in Opt("clothes", {Null} \cup {List(s) : s \in SeqsUpTo(ClothIds, MaxClothes)}),
        a \in Opt("avatarId", IdVals \cup {Str("v")})}
BasicInfos ==
    {MkDict(w \cup h) :
        w \in Opt("weaponSkinShows", {Null} \cup {List(s) : s \in SeqsUpTo(WeaponIds, MaxWeapons)}),
        h \in Opt("headPic", IdVals \cup {Str("h")})}
PetInfos == {MkDict(p) : p \in Opt("id", IdVals \cup {Str("p")})}

Profiles ==
    {MkDict(a \cup b \cup c) :
        a \in Opt("profileInfo", {Null} \cup ProfileInfos),
        b \in Opt("basicInfo", {Null} \cup BasicInfos),
        c \in Opt("petInfo", {Null} \cup PetInfos)}

---------------------------------------------------------------------------
(* Images and fetch results *)
None == [tag |-> "none"]
Img(id) == [tag |-> "img", id |-> id]
NoCall == [id |-> "", requested |-> FALSE, answer |-> "", result |-> None]

\* img_url: None for a falsy id, the resource URL otherwise
img_url(item_id) == IF Truthy(item_id) THEN item_id ELSE Null

\* the answers the image endpoint and the network can give to one GET
Answers == {"ok", "undecodable", "non200", "neterror"}

\* mutant: the status check of line 41 forgotten
FetchResultAnyStatus(id, answer) ==
    IF answer \in {"ok", "non200"} THEN Img(id) ELSE None

\* what fetch_image returns for an answer that is not a network exception
FetchResult(id, answer) == IF answer = "ok" THEN Img(id) ELSE None

---------------------------------------------------------------------------
(* Exact rationals <<num, den>>, den > 0, for the ring angle *)
RECURSIVE Gcd(_, _)
Gcd(a, b) == IF b = 0 THEN a ELSE Gcd(b, a % b)
Abs(x) == IF x < 0 THEN -x ELSE x
Reduce(r) ==
    LET g == Gcd(Abs(r[1]), r[2]) IN <<r[1] \div g, r[2] \div g>>
RDiv(a, b) == Reduce(<<a, b>>)
RMul(r, k) == Reduce(<<r[1] * k, r[2]>>)
RAdd(k, r) == Reduce(<<k * r[2] + r[1], r[2]>>)

\* mutant: the ring started at 0 degrees instead of -90
AngleDegFromZero(n, i) == RMul(RDiv(360, n), i)

\* angle_deg = -90 + (360 / n) * i
AngleDeg(n, i) == RAdd(-90, RMul(RDiv(360, n), i))

Center == <<CanvasW \div 2, CanvasH \div 2>>

---------------------------------------------------------------------------
(* IEEE-754 binary64 arithmetic on positive values, as Python floats compute *)
(* it. A float is m * 2^e with m its 53-bit mantissa, held as four limbs,   *)
(* most significant first: 14 bits (the leading 1 included), then 3 x 13.   *)
(* Every operation rounds to nearest, ties to even.                         *)
LimbBase == 2^13

\* the mantissa plus one unit in the last place; 2^53 renormalises to 2^52
IncMantissa(m) ==
    LET l4 == m[4] + 1
        l3 == m[3] + (l4 \div LimbBase)
        l2 == m[2] + (l3 \div LimbBase)
        l1 == m[1] + (l2 \div LimbBase)
    IN <<l1, l2 % LimbBase, l3 % LimbBase, l4 % LimbBase>>

Round(m, e, up) ==
    IF ~up THEN [m |-> m, e |-> e]
    ELSE LET inc == IncMantissa(m) IN
         IF inc[1] >= 2 * LimbBase
         THEN [m |-> <<LimbBase, 0, 0, 0>>, e |-> e + 1]
         ELSE [m |-> inc, e |-> e]

\* scale a / b into [1, 2): <<a', b', exponent>>
RECURSIVE Norm(_, _, _)
Norm(a, b, e) ==
    IF a >= 2 * b THEN Norm(a, 2 * b, e + 1)
    ELSE IF a < b THEN Norm(2 * a, b, e - 1)
    ELSE <<a, b, e>>

\* the float a / b of two positive integers below 2^11 (long division)
FDiv(a, b) ==
    LET n == Norm(a, b, 0)
        d == n[2]
        t1 == n[1] * LimbBase
        t2 == (t1 % d) * LimbBase
        t3 == (t2 % d) * LimbBase
        t4 == (t3 % d) * LimbBase
        m == <<t1 \div d, t2 \div d, t3 \div d, t4 \div d>>
        r == t4 % d
        up == 2 * r > d \/ (2 * r = d /\ m[4] % 2 = 1)
    IN Round(m, n[3] - 52, up)

\* the number of binary digits of a positive integer
RECURSIVE BitLen(_)
BitLen(c) == IF c = 0 THEN 0 ELSE 1 + BitLen(c \div 2)

\* the float w * x of a positive integer w below 2^11 and a float x
FMulInt(w, x) ==
    LET p4 == w * x.m[4]
        p3 == w * x.m[3] + (p4 \div LimbBase)
        p2 == w * x.m[2] + (p3 \div LimbBase)
        p1 == w * x.m[1] + (p2 \div LimbBase)
        q2 == p2 % LimbBase
        q3 == p3 % LimbBase
        q4 == p4 % LimbBase
        \* the exact product is <<p1, q2, q3, q4>>; d digits too long
        d == BitLen(p1) - 14
        lo == 2^d
        hi == LimbBase \div lo
        kept == <<p1 \div lo,
                  (p1 % lo) * hi + (q2 \div lo),
                  (q2 % lo) * hi + (q3 \div lo),
                  (q3 % lo) * hi + (q4 \div lo)>>
        dropped == q4 % lo
        up == d > 0 /\ (2 * dropped > lo \/ (2 * dropped = lo /\ kept[4] % 2 = 1))
    IN Round(kept, x.e + d, up)

FLess(x, y) ==
    \/ x.e < y.e
    \/ /\ x.e = y.e
       /\ \E j \in 1..4 : x.m[j] < y.m[j] /\ \A k \in 1..(j - 1) : x.m[k] = y.m[k]

\* Python min(x, y): y only when y < x
FMin(x, y) == IF FLess(y, x) THEN y ELSE x

\* Python int(x) of a positive float below 2^27: the fraction is dropped
ToInt(x) ==
    LET k == 53 + x.e
    IN IF k <= 0 THEN 0
       ELSE IF k <= 14 THEN x.m[1] \div 2^(14 - k)
       ELSE x.m[1] * 2^(k - 14) + (x.m[2] \div 2^(27 - k))

Max(a, b) == IF a >= b THEN a ELSE b

\* int(c - n / 2): exact in floats, truncated towards zero
CenterOffset(c, n) ==
    LET t == 2 * c - n
    IN IF t >= 0 THEN t \div 2 ELSE -((-t) \div 2)

---------------------------------------------------------------------------
(* paste_center *)

\* line 84: scale = min(max_size / w, max_size / h)
PasteScale(w, h, max_size) == FMin(FDiv(max_size, w), FDiv(max_size, h))

\* line 85: max(1, int(side * scale))
ScaledSide(side, scale) == Max(1, ToInt(FMulInt(side, scale)))

\* lines 83-90: the resized size and the top-left corner of the paste
PasteCenter(w, h, center, max_size) ==
    LET scale == PasteScale(w, h, max_size)
        nw == ScaledSide(w, scale)
        nh == ScaledSide(h, scale)
    IN [nw |-> nw, nh |-> nh,
        x |-> CenterOffset(center[1], nw), y |-> CenterOffset(center[2], nh)]

---------------------------------------------------------------------------
(* Draw operations *)
PasteOp(what, src, at, maxSize) ==
    [op |-> what, src |-> src, idx |-> -1, center |-> at, ang |-> <<0, 1>>,
     rad |-> 0, size |-> maxSize]
FrameOp(i, ang) ==
    [op |-> "frame", src |-> "", idx |-> i, center |-> Center, ang |-> ang,
     rad |-> RingRadius, size |-> HexSize]
ThumbOp(i, src, ang) ==
    [op |-> "thumb", src |-> src, idx |-> i, center |-> Center, ang |-> ang,
     rad |-> RingRadius, size |-> ItemMax]

---------------------------------------------------------------------------
(* build_outfit_panel *)

\* items = clothes + weapons + [pet_id] if pet_id
CollectItems(clothes, weapons, pet_id) ==
    clothes.v \o weapons.v \o (IF Truthy(pet_id) THEN <<pet_id.s>> ELSE <<>>)

\* mutant: a cap one short of the list
CapItemsDropLast(its) == SubSeq(its, 1, Len(its) - 1)

\* max_items = len(items); items = items[:max_items]
CapItems(its) == SubSeq(its, 1, Len(its))

\* mutant: headPic fetched whatever the avatarId fetch gave
NeedsHeadPicAlways(av) == TRUE

\* line 133: the headPic fallback is taken when avatar is None
NeedsHeadPic(av) == av = None

\* mutant: the else branch with the placeholder left out
AvatarOpsNoPlaceholder(av) ==
    IF av # None THEN <<PasteOp("avatar", av.id, Center, AvatarMax)>> ELSE <<>>

\* lines 137-141: the avatar when there is one, else the 300x300 placeholder
AvatarOps(av) ==
    IF av # None
    THEN <<PasteOp("avatar", av.id, Center, AvatarMax)>>
    ELSE <<PasteOp("placeholder", "", Center, AvatarMax)>>

\* lines 159-163: the thumbnail is pasted only when fetch_image gave an image
ThumbOps(i, n, img) ==
    IF img # None THEN <<ThumbOp(i, img.id, AngleDeg(n, i))>> ELSE <<>>

\* lines 146-147: `if n > 0: for i, item_id in enumerate(items)`
LoopHasNext(n, i) == n > 0 /\ i < n

NoErr == [kind |-> "none", at |-> "none"]

\* the locals of a render that has not started
RenderReset ==
    /\ pc' = "collect"
    /\ items' = <<>>
    /\ idx' = 0
    /\ avatar' = None
    /\ net' = Null
    /\ requests' = <<>>
    /\ answered' = 0
    /\ last' = NoCall
    /\ avatarCalls' = <<>>
    /\ fetched' = <<>>
    /\ canvas' = <<>>
    /\ err' = NoErr
    /\ output' = <<>>

InitRenderLocals ==
    /\ items = <<>>
    /\ idx = 0
    /\ avatar = None
    /\ net = Null
    /\ requests = <<>>
    /\ answered = 0
    /\ last = NoCall
    /\ avatarCalls = <<>>
    /\ fetched = <<>>
    /\ canvas = <<>>
    /\ err = NoErr
    /\ output = <<>>

Raise(kind, at) ==
    /\ pc' = "raised"
    /\ err' = [kind |-> kind, at |-> at]

\* a fetch_image call that returned None without a request (lines 37-39)
Unrequested == [id |-> "", requested |-> FALSE, answer |-> "", result |-> None]

\* lines 116-129: collect the items
Collect ==
    /\ pc = "collect"
    /\ LET pinfo == Get(data, "profileInfo", EmptyDict)
           binfo == Get(data, "basicInfo", EmptyDict)
           pet   == Or(Get(data, "petInfo", EmptyDict), EmptyDict)
       IN IF ~CanGet(pinfo) \/ ~CanGet(binfo)
          THEN /\ Raise("AttributeError", "collect")
               /\ UNCHANGED items
          ELSE /\ items' = CapItems(CollectItems(
                              Or(Get(pinfo, "clothes", EmptyList), EmptyList),
                              Or(Get(binfo, "weaponSkinShows", EmptyList), EmptyList),
                              Get(pet, "id", Null)))
               /\ pc' = "avatar"
               /\ UNCHANGED err
    /\ UNCHANGED <<data, idx, avatar, net, requests, last, avatarCalls, fetched,
                   canvas, output>>
    /\ UNCHANGED <<answered, searchVars, pasteVars>>

AvatarId == Get(Or(Get(data, "profileInfo", EmptyDict), EmptyDict), "avatarId", Null)
HeadPic == Get(Or(Get(data, "basicInfo", EmptyDict), EmptyDict), "headPic", Null)

\* line 132: avatar = await fetch_image(session, avatarId)
FetchAvatar ==
    /\ pc = "avatar"
    /\ IF img_url(AvatarId) = Null
       THEN /\ avatar' = None
            /\ last' = Unrequested
            /\ avatarCalls' = Append(avatarCalls, [who |-> "avatarId", id |-> "", result |-> None])
            /\ pc' = "avatar_got"
            /\ UNCHANGED <<net, requests>>
       ELSE /\ net' = img_url(AvatarId)
            /\ requests' = Append(requests, AvatarId.s)
            /\ pc' = "avatar_wait"
            /\ UNCHANGED <<avatar, last, avatarCalls>>
    /\ UNCHANGED <<data, items, idx, fetched, canvas, err, output>>
    /\ UNCHANGED <<answered, searchVars, pasteVars>>

\* lines 133-134: if avatar is None: avatar = await fetch_image(session, headPic)
FetchHeadPic ==
    /\ pc = "avatar_got"
    /\ IF NeedsHeadPic(avatar)
       THEN IF img_url(HeadPic) = Null
            THEN /\ avatar' = None
                 /\ last' = Unrequested
                 /\ avatarCalls' = Append(avatarCalls, [who |-> "headPic", id |-> "", result |-> None])
                 /\ pc' = "paste_avatar"
                 /\ UNCHANGED <<net, requests>>
            ELSE /\ net' = img_url(HeadPic)
                 /\ requests' = Append(requests, HeadPic.s)
                 /\ pc' = "headpic_wait"
                 /\ UNCHANGED <<avatar, last, avatarCalls>>
       ELSE /\ pc' = "paste_avatar"
            /\ UNCHANGED <<avatar, last, avatarCalls, net, requests>>
    /\ UNCHANGED <<data, items, idx, fetched, canvas, err, output>>
    /\ UNCHANGED <<answered, searchVars, pasteVars>>

\* lines 137-141: paste the avatar, or the placeholder square
PasteAvatar ==
    /\ pc = "paste_avatar"
    /\ canvas' = canvas \o AvatarOps(avatar)
    /\ pc' = "ring"
    /\ idx' = 0
    /\ UNCHANGED <<data, items, avatar, net, requests, last, avatarCalls, fetched,
                   err, output>>
    /\ UNCHANGED <<answered, searchVars, pasteVars>>

\* mutant: the item's fetch started as a task and not awaited (fan-out)
RingItemFanOut ==
    /\ pc = "ring"
    /\ LoopHasNext(Len(items), idx)
    /\ LET item_id == Str(items[idx + 1])
       IN /\ canvas' = Append(canvas, FrameOp(idx, AngleDeg(Len(items), idx)))
          /\ fetched' = Append(fetched, None)
          /\ idx' = idx + 1
          /\ IF img_url(item_id) = Null
             THEN UNCHANGED <<net, requests>>
             ELSE /\ net' = img_url(item_id)
                  /\ requests' = Append(requests, item_id.s)
    /\ UNCHANGED <<data, pc, items, avatar, last, avatarCalls, err, output>>
    /\ UNCHANGED <<answered, searchVars, pasteVars>>

\* lines 145-158: next ring item: angle, hex frame, then the item's fetch
RingItem ==
    /\ pc = "ring"
    /\ LoopHasNext(Len(items), idx)
    /\ LET n == Len(items)
           item_id == Str(items[idx + 1])
           frame == FrameOp(idx, AngleDeg(n, idx))
       IN /\ canvas' = Append(canvas, frame)
          /\ IF img_url(item_id) = Null
             THEN /\ fetched' = Append(fetched, None)
                  /\ last' = Unrequested
                  /\ idx' = idx + 1
                  /\ UNCHANGED <<pc, net, requests>>
             ELSE /\ net' = img_url(item_id)
                  /\ requests' = Append(requests, item_id.s)
                  /\ pc' = "item_wait"
                  /\ UNCHANGED <<fetched, last, idx>>
    /\ UNCHANGED <<data, items, avatar, avatarCalls, err, output>>
    /\ UNCHANGED <<answered, searchVars, pasteVars>>

\* mutant: every answer without an image raises
PropagatesAnyFailure(a) == a # "ok"

\* mutant: the exception of session.get swallowed like a decode failure
PropagatesNever(a) == FALSE

\* line 40: an exception of session.get is caught nowhere in fetch_image
Propagates(a) == a = "neterror"

\* fetch_image lines 40-47 and its caller's next statement
Answer(a) ==
    /\ pc \in {"avatar_wait", "headpic_wait", "item_wait"}
    /\ net # Null
    /\ net' = Null
    /\ answered' = answered + 1
    /\ IF Propagates(a)
       THEN /\ Raise("ClientError",
                     CASE pc = "avatar_wait" -> "avatar"
                       [] pc = "headpic_wait" -> "headPic"
                       [] OTHER -> "ring")
            /\ last' = [id |-> net.s, requested |-> TRUE, answer |-> a, result |-> None]
            /\ UNCHANGED <<avatar, avatarCalls, fetched, canvas, idx>>
       ELSE LET res == FetchResult(net.s, a) IN
            /\ last' = [id |-> net.s, requested |-> TRUE, answer |-> a, result |-> res]
            /\ UNCHANGED err
            /\ CASE pc = "avatar_wait" ->
                      /\ avatar' = res
                      /\ avatarCalls' = Append(avatarCalls,
                                           [who |-> "avatarId", id |-> net.s, result |-> res])
                      /\ pc' = "avatar_got"
                      /\ UNCHANGED <<fetched, canvas, idx>>
                 [] pc = "headpic_wait" ->
                      /\ avatar' = res
                      /\ avatarCalls' = Append(avatarCalls,
                                           [who |-> "headPic", id |-> net.s, result |-> res])
                      /\ pc' = "paste_avatar"
                      /\ UNCHANGED <<fetched, canvas, idx>>
                 [] OTHER ->
                      /\ fetched' = Append(fetched, res)
                      /\ canvas' = canvas \o ThumbOps(idx, Len(items), res)
                      /\ idx' = idx + 1
                      /\ pc' = "ring"
                      /\ UNCHANGED <<avatar, avatarCalls>>
    /\ UNCHANGED <<data, items, requests, output>>
    /\ UNCHANGED <<searchVars, pasteVars>>

\* lines 165-169: encode the canvas and return it
Encode ==
    /\ pc = "ring"
    /\ ~LoopHasNext(Len(items), idx)
    /\ output' = canvas
    /\ pc' = "done"
    /\ UNCHANGED <<data, items, idx, avatar, net, requests, last, avatarCalls,
                   fetched, canvas, err>>
    /\ UNCHANGED <<answered, searchVars, pasteVars>>

Render ==
    \/ Collect
    \/ FetchAvatar
    \/ FetchHeadPic
    \/ PasteAvatar
    \/ RingItem
    \/ \E a \in Answers : Answer(a)
    \/ Encode

---------------------------------------------------------------------------
(* search_cmd *)
Regions == <<"sg", "ind", "br">>

\* the answers the profile endpoint and the network can give to one GET
ProfileAnswers == {"200", "200badjson", "404", "other", "timeout", "neterror"}

\* the profile records the profile endpoint answers with
SearchProfiles ==
    {EmptyDict,
     MkDict({<<"profileInfo", Null>>}),
     MkDict({<<"profileInfo", MkDict({<<"clothes", List(<<"a">>)>>,
                                      <<"avatarId", Str("v")>>})>>})}

Msg(kind, reg) == [kind |-> kind, region |-> reg]

\* line 370: the first message, then the loop over the regions
SearchStart ==
    /\ spc = "start"
    /\ sent' = Append(sent, Msg("searching", ""))
    /\ region' = 1
    /\ spc' = "loop"
    /\ UNCHANGED <<queried, statuses>>
    /\ UNCHANGED <<renderVars, pasteVars>>

\* lines 375-379: the profile request of the next region
SearchQuery ==
    /\ spc = "loop"
    /\ region <= Len(Regions)
    /\ queried' = Append(queried, Regions[region])
    /\ spc' = "await"
    /\ UNCHANGED <<region, statuses, sent>>
    /\ UNCHANGED <<renderVars, pasteVars>>

\* lines 406-409: what the two except clauses send, if anything
CaughtMsgs(st, reg) ==
    CASE st = "timeout" -> <<Msg("timeout", reg)>>
      [] st \in {"neterror", "200badjson"} -> <<Msg("error", reg)>>
      [] OTHER -> <<>>

\* lines 379-409: the answer to the profile request
SearchAnswer(st, d) ==
    /\ spc = "await"
    /\ statuses' = Append(statuses, st)
    /\ IF st = "200"
       THEN \* lines 381-384: data = await resp.json(); build_outfit_panel(data)
            /\ data' = d
            /\ RenderReset
            /\ spc' = "render"
            /\ UNCHANGED <<region, sent>>
       ELSE \* 404: continue; another status: nothing; an exception: a message
            /\ sent' = sent \o CaughtMsgs(st, Regions[region])
            /\ region' = region + 1
            /\ spc' = "loop"
            /\ UNCHANGED renderVars
    /\ UNCHANGED queried
    /\ UNCHANGED pasteVars

\* lines 384-401: the panel and the embed are sent and the command returns;
\* lines 408-409: an exception of build_outfit_panel is reported and the loop goes on
SearchRendered ==
    /\ spc = "render"
    /\ pc \in {"done", "raised"}
    /\ IF pc = "done"
       THEN /\ sent' = sent \o <<Msg("panel", Regions[region]), Msg("embed", Regions[region])>>
            /\ spc' = "returned"
            /\ UNCHANGED region
       ELSE /\ sent' = Append(sent, Msg("error", Regions[region]))
            /\ region' = region + 1
            /\ spc' = "loop"
    /\ UNCHANGED <<queried, statuses>>
    /\ UNCHANGED <<renderVars, pasteVars>>

\* line 412: after the loop
SearchNotFound ==
    /\ spc = "loop"
    /\ region > Len(Regions)
    /\ sent' = Append(sent, Msg("notfound", ""))
    /\ spc' = "finished"
    /\ UNCHANGED <<region, queried, statuses>>
    /\ UNCHANGED <<renderVars, pasteVars>>

---------------------------------------------------------------------------
(* paste_center applied to bounded inputs *)
MaxDim == 12
MaxTarget == 3

NoPaste == [nw |-> 0, nh |-> 0, x |-> 0, y |-> 0]

PasteDims == (1..MaxDim) \cup {100, 200, 1000}
PasteSizes == (1..MaxTarget) \cup {ItemMax, AvatarMax}
PasteTargets == {Center, <<Center[1], Center[2] - RingRadius>>}

\* lines 81-90
Paste ==
    /\ pasted = NoPaste
    /\ pasted' = PasteCenter(pimg[1], pimg[2], pat, pmax)
    /\ UNCHANGED <<pimg, pmax, pat>>
    /\ UNCHANGED <<renderVars, searchVars>>

---------------------------------------------------------------------------
(* Specifications *)
RenderIdle ==
    /\ data = EmptyDict
    /\ pc = "idle"
    /\ InitRenderLocals

SearchIdle ==
    /\ spc = "none"
    /\ region = 0
    /\ queried = <<>>
    /\ statuses = <<>>
    /\ sent = <<>>

PasteIdle ==
    /\ pimg = <<1, 1>>
    /\ pmax = 1
    /\ pat = Center
    /\ pasted = NoPaste

\* one render of any profile record
Init ==
    /\ data \in Profiles
    /\ pc = "collect"
    /\ InitRenderLocals
    /\ SearchIdle
    /\ PasteIdle
Next == Render
Spec == Init /\ [][Next]_vars

\* one !search command
InitSearch ==
    /\ RenderIdle
    /\ spc = "start"
    /\ region = 0
    /\ queried = <<>>
    /\ statuses = <<>>
    /\ sent = <<>>
    /\ PasteIdle
NextSearch ==
    \/ SearchStart
    \/ SearchQuery
    \/ \E st \in ProfileAnswers, d \in SearchProfiles : SearchAnswer(st, d)
    \/ SearchRendered
    \/ SearchNotFound
    \/ Render
SpecSearch == InitSearch /\ [][NextSearch]_vars

\* one paste_center call
InitPaste ==
    /\ RenderIdle
    /\ SearchIdle
    /\ pimg \in PasteDims \X PasteDims
    /\ pmax \in PasteSizes
    /\ pat \in PasteTargets
    /\ pasted = NoPaste
NextPaste == Paste
SpecPaste == InitPaste /\ [][NextPaste]_vars
---------------------------------------------------------------------------
(* Properties *)
IsFrame(o) == o.op = "frame"
IsThumb(o) == o.op = "thumb"
IsCenterPaste(o) == o.op \in {"avatar", "placeholder"}
Frames == SelectSeq(canvas, IsFrame)
HasFrame(i) == \E k \in DOMAIN canvas : IsFrame(canvas[k]) /\ canvas[k].idx = i
HasThumb(i) == \E k \in DOMAIN canvas : IsThumb(canvas[k]) /\ canvas[k].idx = i
NetworkRaised == pc = "raised" /\ err.kind = "ClientError"
Collected == pc \notin {"idle", "collect"} /\ ~(pc = "raised" /\ err.at = "collect")
AvatarStepDone ==
    pc \in {"ring", "item_wait", "done"} \/ (pc = "raised" /\ err.at = "ring")
AvatarRequestIds ==
    LET asked(c) == c.id # "" IN
    [k \in DOMAIN SelectSeq(avatarCalls, asked) |-> SelectSeq(avatarCalls, asked)[k].id]
NonEmpty(id) == id # ""

C2_AvatarResolution ==
    /\ Len(avatarCalls) <= 2
    /\ Len(avatarCalls) >= 1 => avatarCalls[1].who = "avatarId"
    /\ Len(avatarCalls) = 2 =>
          avatarCalls[2].who = "headPic" /\ avatarCalls[1].result = None
    /\ pc = "headpic_wait" => Len(avatarCalls) = 1 /\ avatarCalls[1].result = None
    /\ ~AvatarStepDone => canvas = <<>>
    /\ AvatarStepDone =>
          /\ Len(avatarCalls) >= 1
          /\ avatarCalls[1].result = None => Len(avatarCalls) = 2
          /\ Len(canvas) >= 1
          /\ \A k \in DOMAIN canvas : IsCenterPaste(canvas[k]) <=> k = 1
          /\ canvas[1].center = Center
          /\ canvas[1].op = "placeholder" <=>
                \A k \in DOMAIN avatarCalls : avatarCalls[k].result = None
          /\ canvas[1].op = "avatar" =>
                /\ avatarCalls[Len(avatarCalls)].result # None
                /\ canvas[1].src = avatarCalls[Len(avatarCalls)].result.id
                /\ canvas[1].src = IF Len(avatarCalls) = 1 THEN AvatarId.s ELSE HeadPic.s

\* witness of C2: the avatarId fetch gave nothing, the headPic image was
\* pasted, and a ring frame was drawn after it
C2_Witness ==
    /\ AvatarStepDone
    /\ Len(avatarCalls) = 2
    /\ avatarCalls[1].id = "v"
    /\ canvas[1].op = "avatar"
    /\ canvas[1].src = "h"
    /\ Len(canvas) >= 2

\* the lists and the pet id the profile record holds (empty when missing)
ListAt(section, key) ==
    LET sec == IF section \in DOMAIN data.d THEN data.d[section] ELSE Null
    IN IF sec.tag = "dict" /\ key \in DOMAIN sec.d /\ sec.d[key].tag = "list"
       THEN sec.d[key].v ELSE <<>>
PetPresent ==
    /\ "petInfo" \in DOMAIN data.d
    /\ data.d["petInfo"].tag = "dict"
    /\ "id" \in DOMAIN data.d["petInfo"].d
    /\ data.d["petInfo"].d["id"].tag = "str"
    /\ data.d["petInfo"].d["id"].s # ""

\* C3: the ItemList is clothes, then weaponSkinShows, then the pet id when a
\* (non-empty) pet id is present: same order, duplicates kept, nothing cut,
\* so its length is len(clothes) + len(weaponSkinShows) + (1 if pet id);
\* and the ring is processed in that order: the j-th frame drawn is item
\* j-1's, a thumbnail shows the item of its index, the requests of the ring
\* are the non-empty items in list order.
C3_ItemListOrder ==
    Collected =>
       LET c == ListAt("profileInfo", "clothes")
           w == ListAt("basicInfo", "weaponSkinShows")
       IN /\ Len(items) = Len(c) + Len(w) + (IF PetPresent THEN 1 ELSE 0)
          /\ \A k \in DOMAIN c : items[k] = c[k]
          /\ \A k \in DOMAIN w : items[Len(c) + k] = w[k]
          /\ PetPresent => items[Len(items)] = data.d["petInfo"].d["id"].s
          /\ \A j \in DOMAIN Frames : Frames[j].idx = j - 1
          /\ \A k \in DOMAIN canvas :
                IsThumb(canvas[k]) => canvas[k].src = items[canvas[k].idx + 1]
          /\ pc = "done" =>
                /\ Len(Frames) = Len(items)
                /\ requests = AvatarRequestIds \o SelectSeq(items, NonEmpty)

\* witness of C3: a finished render of four items, the first two equal, the
\* last one the pet
C3_Witness ==
    /\ pc = "done"
    /\ Len(items) = 4
    /\ items[1] = items[2]
    /\ items[3] = "w"
    /\ items[4] = "p"
    /\ Len(Frames) = 4

\* C4: fetch_image answers None without a request for an empty or absent id
\* and issues exactly one GET otherwise, so the requests of a render are, in
\* order and with repetitions, the non-empty ids it was called with; it
\* returns an image exactly when the answer is 200 with a decodable body;
\* a non-200 answer or an undecodable body gives None and raises nothing.
C4_FetchImage ==
    /\ \A k \in DOMAIN requests : requests[k] # ""
    /\ Collected =>
          requests = AvatarRequestIds
                     \o SelectSeq(SubSeq(items, 1, idx), NonEmpty)
                     \o (IF net # Null THEN <<net.s>> ELSE <<>>)
                     \o (IF NetworkRaised THEN <<last.id>> ELSE <<>>)
    /\ ~last.requested => last.result = None /\ last.id = ""
    /\ last.requested => (last.result # None <=> last.answer = "ok")
    /\ last.result # None => last.result.id = last.id
    /\ last.answer \in {"non200", "undecodable"} => last.result = None /\ pc # "raised"

\* witness of C4: the same id requested twice in a row, the second request
\* answered with an undecodable body
C4_Witness ==
    /\ pc = "ring"
    /\ Len(requests) >= 2
    /\ requests[Len(requests)] = "a"
    /\ requests[Len(requests) - 1] = "a"
    /\ last.answer = "undecodable"
    /\ last.result = None

\* C5: build_outfit_panel never raises on missing data: whatever sections and
\* fields are absent or null, a render whose fetches all answer (image or
\* unavailable) raises nothing.
C5_NeverRaisesOnMissingData == ~(pc = "raised" /\ err.kind # "ClientError")

\* C6 as claimed: once the avatar step has completed, no failure of the
\* per-item ring loop propagates to the caller.
C6_RingFailuresContained == ~(pc = "raised" /\ err.at = "ring")

\* C6 as amended: network exceptions propagate from every fetch, the ring
\* loop included. An item's fetch that meets a network exception aborts the
\* render with that exception and nothing is returned; every other answer to
\* an item's fetch lets the loop go on; and every exception that leaves the
\* render is a network exception of a fetch or the AttributeError of the item
\* collection.
C6_RingNetworkErrorPropagates ==
    /\ [](pc = "raised" =>
            \/ /\ err.kind = "ClientError"
               /\ err.at \in {"avatar", "headPic", "ring"}
               /\ last.answer = "neterror"
               /\ output = <<>>
            \/ err.kind = "AttributeError" /\ err.at = "collect")
    /\ [][pc = "item_wait" =>
            \/ /\ last'.answer = "neterror"
               /\ pc' = "raised"
               /\ err' = [kind |-> "ClientError", at |-> "ring"]
               /\ output' = <<>>
            \/ /\ last'.answer \in {"ok", "undecodable", "non200"}
               /\ pc' = "ring"
               /\ err' = NoErr]_vars

\* witness of C6: a render aborted by a network exception in the ring loop,
\* after the avatar step and a frame were drawn
C6_Witness ==
    /\ pc = "raised"
    /\ err.at = "ring"
    /\ Len(canvas) >= 2
    /\ IsCenterPaste(canvas[1])

\* C7: !search queries sg, ind, br in that order and stops at the first
\* region that answers 200: no later region is queried, the panel and the
\* embed are sent at most once, and "not found in any region" is sent only
\* when no region answered 200.
C7_StopsAtFirst200 ==
    LET is200(j) == statuses[j] \in {"200", "200badjson"}
        count(kind) == Cardinality({k \in DOMAIN sent : sent[k].kind = kind})
    IN /\ queried = SubSeq(Regions, 1, Len(queried))
       /\ \A j \in DOMAIN statuses : is200(j) => Len(queried) = j
       /\ count("panel") <= 1
       /\ count("embed") <= 1
       /\ count("notfound") >= 1 => \A j \in DOMAIN statuses : ~is200(j)

\* C8: the frame of item i of n is drawn at -90 + (360/n)*i degrees on the
\* ring of radius 420 around (700, 500): item 0 at the top, and for n = 4
\* the angles are -90, 0, 90, 180 in list order.
C8_RingAngles ==
    /\ \A k \in DOMAIN canvas :
          IsFrame(canvas[k]) =>
             LET n == Len(items)
                 i == canvas[k].idx
                 r == canvas[k].ang
             IN /\ n >= 1 /\ i \in 0..(n - 1)
                /\ r[2] > 0
                /\ r[1] * n = r[2] * (360 * i - 90 * n)
                /\ canvas[k].rad = 420
                /\ canvas[k].center = <<700, 500>>
                /\ i = 0 => r = <<-90, 1>>
                /\ n = 4 => r = <<(<<-90, 0, 90, 180>>)[i + 1], 1>>
    /\ \A k \in DOMAIN canvas :
          IsThumb(canvas[k]) =>
             \E f \in DOMAIN canvas :
                /\ f < k /\ IsFrame(canvas[f])
                /\ canvas[f].idx = canvas[k].idx /\ canvas[f].ang = canvas[k].ang

\* witness of C8: a finished render with the four frames of a four-item list
C8_Witness ==
    /\ pc = "done"
    /\ Len(items) = 4
    /\ [j \in DOMAIN Frames |-> Frames[j].ang] = << <<-90, 1>>, <<0, 1>>, <<90, 1>>, <<180, 1>> >>

\* C9: with an empty ItemList no frame is drawn and no item is fetched: the
\* requests are those of the avatar step alone, and the returned image holds
\* one draw operation, the avatar or the placeholder at the center.
C9_EmptyListNoRing ==
    Collected /\ Len(items) = 0 =>
       /\ fetched = <<>>
       /\ \A k \in DOMAIN canvas : ~IsFrame(canvas[k]) /\ ~IsThumb(canvas[k])
       /\ pc \notin {"item_wait"}
       /\ pc \in {"ring", "done"} => requests = AvatarRequestIds
       /\ pc = "done" =>
             /\ Len(output) = 1
             /\ IsCenterPaste(output[1])
             /\ output[1].center = Center

\* witness of C9: a finished render of an empty list showing the placeholder
C9_Witness ==
    /\ pc = "done"
    /\ Len(items) = 0
    /\ output = <<PasteOp("placeholder", "", Center, AvatarMax)>>

\* C10: paste_center resizes a w x h image to
\* (max(1, floor(w*s)), max(1, floor(h*s))), s = min(max_size/w, max_size/h),
\* both sides between 1 and max_size, and pastes it centered on the target.
C10_ExactResize ==
    pasted # NoPaste =>
       LET w == pimg[1]
           h == pimg[2]
           long == Max(w, h)
       IN /\ pasted.nw = Max(1, (w * pmax) \div long)
          /\ pasted.nh = Max(1, (h * pmax) \div long)
          /\ pasted.nw >= 1 /\ pasted.nw <= pmax
          /\ pasted.nh >= 1 /\ pasted.nh <= pmax
          /\ 2 * pasted.x + pasted.nw \in {2 * pat[1], 2 * pat[1] - 1}
          /\ 2 * pasted.y + pasted.nh \in {2 * pat[2], 2 * pat[2] - 1}

\* the GETs issued and not yet ended
Outstanding == Len(requests) - answered

\* C11: within one render the fetches and the draws are strictly sequential
\* and follow the ItemList: at most one GET is outstanding at any time, and
\* while one is nothing else runs; an item's frame is on the canvas when its
\* fetch is issued and its thumbnail is not; the draws on the canvas are, per
\* item, frame then thumbnail, item by item in list order, after the center
\* paste, so every draw of item i precedes every draw of item j > i.
C11_SequentialInListOrder ==
    /\ Outstanding \in {0, 1}
    /\ Outstanding = 1 <=> net # Null
    /\ net # Null <=> pc \in {"avatar_wait", "headpic_wait", "item_wait"}
    /\ pc \in {"avatar_wait", "headpic_wait"} => canvas = <<>>
    /\ pc = "item_wait" =>
          /\ net.s = items[idx + 1]
          /\ canvas[Len(canvas)] = FrameOp(idx, AngleDeg(Len(items), idx))
          /\ ~HasThumb(idx)
          /\ \A i \in 0..(idx - 1) : HasFrame(i)
    /\ \A k \in DOMAIN canvas : \A l \in DOMAIN canvas :
          k < l =>
             /\ canvas[k].idx <= canvas[l].idx
             /\ canvas[k].idx = canvas[l].idx => IsFrame(canvas[k]) /\ IsThumb(canvas[l])
    /\ \A k \in DOMAIN canvas : IsThumb(canvas[k]) => HasFrame(canvas[k].idx)
    /\ \A k \in DOMAIN canvas :
          IsFrame(canvas[k]) => \A i \in 0..(canvas[k].idx - 1) : HasFrame(i)

\* witness of C11: a finished render with three GETs, all ended, in which two
\* consecutive items both got their thumbnail
C11_Witness ==
    /\ pc = "done"
    /\ Len(requests) >= 3
    /\ Outstanding = 0
    /\ \E i \in 0..(Len(items) - 2) :
          HasFrame(i) /\ HasThumb(i) /\ HasFrame(i + 1) /\ HasThumb(i + 1)
=============================================================================
